---- MODULE Spec2Model ----
(***************************************************************************)
(* Model of user_tags/forms.py: UserTagsFormMixin (__init__, save,         *)
(* save_tags, split_tags) over an abstract relational store holding the    *)
(* DummyModel, TaggedItem, UserTagGroup and UserTag tables.                *)
(*                                                                         *)
(* A string is a sequence of one-character strings, so that splitting,     *)
(* stripping and joining are computed character by character.             *)
(***************************************************************************)
EXTENDS Integers, Sequences, FiniteSets, TLC

VARIABLES
    records,              \* DummyModel table: pk -> value of the row's user attribute
    tagged_items,         \* TaggedItem table: rows [id, content_type, object_id, user_tags]
    user_tag_groups,      \* UserTagGroup table: rows [id, name, user]
    user_tags,            \* UserTag table: rows [id, user_tag_group, text]
    next_tagged_item_id,  \* autoincrement of the TaggedItem table
    saves,                \* number of save() calls made so far
    last,                 \* arguments and outcome of the latest save() call
    saved_text,           \* pk -> cleaned_data of the latest successful save() of that record
    loaded,               \* form constructed by the latest __init__: its instance and initial
    tag_data,             \* split_tags: the argument
    split_result,         \* split_tags: the returned list
    split_done,           \* split_tags: has returned
    store_unique,         \* concurrent saves: does the store enforce natural-key uniqueness
    proc                  \* concurrent saves: per request, position and locals of its save()

vars == <<records, tagged_items, user_tag_groups, user_tags, next_tagged_item_id,
          saves, last, saved_text, loaded, tag_data, split_result, split_done,
          store_unique, proc>>

----------------------------------------------------------------------------
(* Bounds *)

MaxLen == 5
MaxSaves == 2
MaxRecords == 1

----------------------------------------------------------------------------
(* Strings *)

Whitespace == {" ", "\t"}

Alphabet == {"a", "b", ","} \cup Whitespace

RECURSIVE StringsOfLen(_)
StringsOfLen(n) ==
    IF n = 0 THEN {<<>>}
    ELSE {Append(s, c) : s \in StringsOfLen(n - 1), c \in Alphabet}

Strings == UNION {StringsOfLen(n) : n \in 0..MaxLen}

\* "a, b, a, ,c ", "" and "single"
Example1 == <<"a", ",", " ", "b", ",", " ", "a", ",", " ", ",", "c", " ">>
Example2 == <<>>
Example3 == <<"s", "i", "n", "g", "l", "e">>

RECURSIVE SplitAcc(_, _, _)
SplitAcc(s, cur, acc) ==
    IF s = <<>> THEN Append(acc, cur)
    ELSE IF Head(s) = "," THEN SplitAcc(Tail(s), <<>>, Append(acc, cur))
    ELSE SplitAcc(Tail(s), Append(cur, Head(s)), acc)

\* str.split(','): the pieces between commas, empty pieces included
str_split(s) == SplitAcc(s, <<>>, <<>>)

RECURSIVE str_lstrip(_)
str_lstrip(s) ==
    IF s # <<>> /\ Head(s) \in Whitespace THEN str_lstrip(Tail(s)) ELSE s

RECURSIVE str_rstrip(_)
str_rstrip(s) ==
    IF s # <<>> /\ s[Len(s)] \in Whitespace
    THEN str_rstrip(SubSeq(s, 1, Len(s) - 1)) ELSE s

\* str.strip(): leading and trailing whitespace removed
str_strip(s) == str_rstrip(str_lstrip(s))

InSeq(x, seq) == \E i \in 1..Len(seq) : seq[i] = x

RECURSIVE split_tags_loop(_, _)
split_tags_loop(pieces, tags) ==
    IF pieces = <<>> THEN tags
    ELSE LET tag == str_strip(Head(pieces))
         IN  IF tag # <<>> /\ ~InSeq(tag, tags)
             THEN split_tags_loop(Tail(pieces), Append(tags, tag))
             ELSE split_tags_loop(Tail(pieces), tags)

RECURSIVE split_tags_keep_dups(_, _)
split_tags_keep_dups(pieces, tags) ==
    IF pieces = <<>> THEN tags
    ELSE LET tag == str_strip(Head(pieces))
         IN  IF tag # <<>>
             THEN split_tags_keep_dups(Tail(pieces), Append(tags, tag))
             ELSE split_tags_keep_dups(Tail(pieces), tags)

split_tags_no_dedupe(data) == split_tags_keep_dups(str_split(data), <<>>)

split_tags(data) == split_tags_loop(str_split(data), <<>>)

RECURSIVE JoinAcc(_, _, _)
JoinAcc(sep, seq, acc) ==
    IF seq = <<>> THEN acc
    ELSE JoinAcc(sep, Tail(seq), acc \o sep \o Head(seq))

\* sep.join(seq)
str_join(sep, seq) ==
    IF seq = <<>> THEN <<>> ELSE JoinAcc(sep, Tail(seq), Head(seq))

----------------------------------------------------------------------------
(* Host application: models, users, declared tag fields, submitted texts *)

\* the mixin serves any form's Meta.model: DummyModel and one more model, both
\* declaring the same TAG_FIELDS, so that object ids repeat across content types
Models == {"dummymodel", "othermodel"}

Users == {"alice", "bob"}

\* an attribute or method that hasattr() does not find
Absent == "<absent>"

UserAttrs == Users \cup {Absent}

\* the instance keyword argument of a form that creates a new record
NoInstance == 0

TAG_FIELDS == << <<"keywords", "Keywords">>, <<"topics", "Topics">> >>

FieldNames == {TAG_FIELDS[i][1] : i \in 1..Len(TAG_FIELDS)}

\* "", "a", "b,a , b"
SaveTexts ==
    { <<>>,
      <<"a">>,
      <<"b", ",", "a", " ", ",", " ", "b">> }

----------------------------------------------------------------------------
(* Store operations *)

\* ContentType.objects.get_for_model(instance)
get_for_model(key) == key[1]

\* TaggedItem.objects.filter(content_type=..., object_id=...)
filter_none(items, key) == {}

filter_tagged_items(items, key) ==
    {ti \in items : ti.content_type = get_for_model(key) /\ ti.object_id = key[2]}

\* tagged_items.delete()
keep_tagged_items(items, key) == items

delete_tagged_items(items, key) == items \ filter_tagged_items(items, key)

\* Model.objects.get(...): the matching row, DoesNotExist or MultipleObjectsReturned
objects_get(rows) ==
    IF rows = {} THEN [exc |-> "DoesNotExist"]
    ELSE IF Cardinality(rows) > 1 THEN [exc |-> "MultipleObjectsReturned"]
    ELSE [exc |-> "", row |-> CHOOSE r \in rows : TRUE]

\* the rows of a table are numbered as they are inserted; UserTagGroup and
\* UserTag rows are never deleted
new_id(rows) == Cardinality(rows) + 1

\* ModelForm.save(): the instance is written to its table
super_save(recs, key, inst_user) ==
    [k \in DOMAIN recs \cup {key} |-> IF k = key THEN inst_user ELSE recs[k]]

\* save(), lines 48-59: the owner of the tags, or Absent when the else branch raises
resolve_user_instance_first(form_user, inst_user, get_user) ==
    IF inst_user # Absent THEN inst_user
    ELSE IF form_user # Absent THEN form_user
    ELSE get_user

resolve_user(form_user, inst_user, get_user) ==
    IF form_user # Absent THEN form_user
    ELSE IF inst_user # Absent THEN inst_user
    ELSE get_user

\* save_tags(), lines 73-77
always_create_group(db, user, tag_field) ==
    [exc |-> "", row |-> [id |-> new_id(db.groups), name |-> tag_field, user |-> user]]

get_or_create_group(db, user, tag_field) ==
    LET got == objects_get({g \in db.groups : g.name = tag_field})
    IN  IF got.exc = "DoesNotExist"
        THEN [exc |-> "", row |-> [id |-> new_id(db.groups), name |-> tag_field, user |-> user]]
        ELSE got

\* save_tags(), lines 80-84
always_create_tag(db, group, text) ==
    [exc |-> "", row |-> [id |-> new_id(db.tags), user_tag_group |-> group.id, text |-> text]]

get_or_create_tag(db, group, text) ==
    LET got == objects_get({t \in db.tags : t.user_tag_group = group.id /\ t.text = text})
    IN  IF got.exc = "DoesNotExist"
        THEN [exc |-> "", row |-> [id |-> new_id(db.tags), user_tag_group |-> group.id, text |-> text]]
        ELSE got

\* tagged_item.user_tags.add(user_tag)
add_user_tag(items, tagged_item_id, tag_id) ==
    {IF ti.id = tagged_item_id THEN [ti EXCEPT !.user_tags = @ \cup {tag_id}] ELSE ti
        : ti \in items}

\* save_tags(), lines 79-85: the loop over the tags of one field
RECURSIVE save_tags_loop(_, _, _, _)
save_tags_loop(db, group, tagged_item_id, tags) ==
    IF tags = <<>> \/ db.exc # "" THEN db
    ELSE LET got == get_or_create_tag(db, group, Head(tags))
         IN  IF got.exc # "" THEN [db EXCEPT !.exc = got.exc]
             ELSE save_tags_loop(
                    [db EXCEPT !.tags = @ \cup {got.row},
                               !.items = add_user_tag(@, tagged_item_id, got.row.id)],
                    group, tagged_item_id, Tail(tags))

\* save_tags(), lines 72-85
save_tags(db, user, tagged_item_id, tag_field, data) ==
    LET got == get_or_create_group(db, user, tag_field)
    IN  IF got.exc # "" THEN [db EXCEPT !.exc = got.exc]
        ELSE save_tags_loop([db EXCEPT !.groups = @ \cup {got.row}],
                            got.row, tagged_item_id, split_tags(data))

\* save(), lines 67-69: the loop over the declared tag fields
RECURSIVE save_fields(_, _, _, _, _)
save_fields(db, user, tagged_item_id, fields, cleaned_data) ==
    IF fields = <<>> \/ db.exc # "" THEN db
    ELSE save_fields(save_tags(db, user, tagged_item_id, Head(fields)[1],
                               cleaned_data[Head(fields)[1]]),
                     user, tagged_item_id, Tail(fields), cleaned_data)

\* save(), lines 61-66: the record's TaggedItems are deleted and a new one is stored
recreate_tagged_item(db, key) ==
    [db EXCEPT !.items = delete_tagged_items(@, key) \cup
                           {[id |-> db.next_id, content_type |-> get_for_model(key),
                             object_id |-> key[2], user_tags |-> {}]},
               !.next_id = @ + 1]

\* save(), lines 48-70: the tables after the call, exc telling how it ended
save_db_delete_first(db, key, user, cleaned_data) ==
    IF user = Absent THEN [recreate_tagged_item(db, key) EXCEPT !.exc = "MissingTagOwner"]
    ELSE save_fields(recreate_tagged_item(db, key), user, db.next_id, TAG_FIELDS, cleaned_data)

save_db(db, key, user, cleaned_data) ==
    IF user = Absent THEN [db EXCEPT !.exc = "MissingTagOwner"]
    ELSE save_fields(recreate_tagged_item(db, key), user, db.next_id, TAG_FIELDS, cleaned_data)

\* save(), lines 46-59: the record table after the call, whether or not an owner was found
save_records_resolve_first(recs, key, inst_user, user) ==
    IF user = Absent THEN recs ELSE super_save(recs, key, inst_user)

save_records(recs, key, inst_user, user) == super_save(recs, key, inst_user)

----------------------------------------------------------------------------
(* __init__: the initial value of the tag fields *)

Perms(S) ==
    {seq \in [1..Cardinality(S) -> S] :
        \A i, j \in 1..Cardinality(S) : i # j => seq[i] # seq[j]}

\* __init__(), lines 39-40: tagged_item.user_tags.filter(user_tag_group__name=tag_field)
filter_all_user_tags(item, groups, tags, tag_field) ==
    {t \in tags : t.id \in item.user_tags}

filter_user_tags(item, groups, tags, tag_field) ==
    {t \in tags : /\ t.id \in item.user_tags
                  /\ \E g \in groups : g.id = t.user_tag_group /\ g.name = tag_field}

\* __init__(), lines 41-42: the texts joined by ", ", in any order the query may return
initial_values(item, groups, tags, tag_field) ==
    {str_join(<<",", " ">>, [i \in DOMAIN seq |-> seq[i].text])
        : seq \in Perms(filter_user_tags(item, groups, tags, tag_field))}

NoCleanedData == [f \in FieldNames |-> <<>>]

NoKey == <<"dummymodel", NoInstance>>

NotLoaded == [active |-> FALSE, key |-> NoKey, exc |-> "", set |-> {}, value |-> NoCleanedData]

\* __init__(), lines 13-42.  It writes nothing to the store, so one form is
\* constructed per store state: a second one would be constructed from the same tables.
Load(model, instance) ==
    /\ ~loaded.active
    /\ instance # NoInstance => <<model, instance>> \in DOMAIN records
    /\ LET key == <<model, instance>>
       IN  \E got \in {objects_get(filter_tagged_items(tagged_items, key))} :
           IF instance = NoInstance \/ got.exc = "DoesNotExist"
           THEN loaded' = [NotLoaded EXCEPT !.active = TRUE, !.key = key]
           ELSE IF got.exc # ""
           THEN loaded' = [NotLoaded EXCEPT !.active = TRUE, !.key = key, !.exc = got.exc]
           ELSE \E value \in [FieldNames ->
                        UNION {initial_values(got.row, user_tag_groups, user_tags, f)
                                  : f \in FieldNames}] :
                    /\ \A f \in FieldNames :
                          value[f] \in initial_values(got.row, user_tag_groups, user_tags, f)
                    /\ loaded' = [active |-> TRUE, key |-> key, exc |-> "",
                                  set |-> FieldNames, value |-> value]
    /\ UNCHANGED <<records, tagged_items, user_tag_groups, user_tags, next_tagged_item_id,
                   saves, last, saved_text, tag_data, split_result, split_done,
                   store_unique, proc>>

----------------------------------------------------------------------------
(* save(): one call, start to return or raise *)

NoSave == [key |-> NoKey, instance |-> NoInstance, form_user |-> Absent, inst_user |-> Absent,
           get_user |-> Absent, cleaned_data |-> NoCleanedData, user |-> Absent,
           outcome |-> "none", old_tags |-> {}, repeat |-> FALSE]

\* the TaggedItem rows of a record, and the ids of the tags they hold
items_of(items, key) == {ti \in items : ti.content_type = key[1] /\ ti.object_id = key[2]}

tags_of(items, key) == UNION {ti.user_tags : ti \in items_of(items, key)}

count_records(model) == Cardinality({k \in DOMAIN records : k[1] = model})

\* save(), lines 44-70, called on the form that __init__ has constructed
Save(model, instance, form_user, inst_user, get_user, cleaned_data) ==
    /\ saves < MaxSaves
    /\ loaded.active /\ loaded.exc = "" /\ loaded.key = <<model, instance>>
    /\ IF instance = NoInstance
       THEN count_records(model) < MaxRecords
       ELSE <<model, instance>> \in DOMAIN records
    /\ LET pk == IF instance = NoInstance THEN count_records(model) + 1 ELSE instance
           key == <<model, pk>>
           user == resolve_user(form_user, inst_user, get_user)
       IN  \E db \in {save_db([items |-> tagged_items, groups |-> user_tag_groups,
                               tags |-> user_tags, next_id |-> next_tagged_item_id,
                               exc |-> ""],
                              key, user, cleaned_data)} :
           /\ records' = save_records(records, key, inst_user, user)
           /\ tagged_items' = db.items
           /\ user_tag_groups' = db.groups
           /\ user_tags' = db.tags
           /\ next_tagged_item_id' = db.next_id
           /\ last' = [key |-> key, instance |-> instance, form_user |-> form_user,
                       inst_user |-> inst_user, get_user |-> get_user,
                       cleaned_data |-> cleaned_data, user |-> user,
                       outcome |-> IF db.exc = "" THEN "ok" ELSE db.exc,
                       old_tags |-> tags_of(tagged_items, key),
                       repeat |-> /\ last.outcome = "ok"
                                  /\ last.key = key
                                  /\ last.cleaned_data = cleaned_data]
           /\ saved_text' = IF db.exc = ""
                            THEN [k \in DOMAIN saved_text \cup {key} |->
                                    IF k = key THEN cleaned_data ELSE saved_text[k]]
                            ELSE saved_text
    /\ saves' = saves + 1
    /\ loaded' = NotLoaded
    /\ UNCHANGED <<tag_data, split_result, split_done, store_unique, proc>>

----------------------------------------------------------------------------
(* Sequential requests *)

Procs == {1, 2}

IdleProc == [pc |-> "idle", key |-> NoKey, user |-> Absent, item |-> 0, fields |-> <<>>,
             data |-> NoCleanedData, group |-> 0, tags |-> <<>>, tag |-> 0, exc |-> ""]

NoProc == [p \in Procs |-> IdleProc]

Init ==
    /\ records = <<>>
    /\ tagged_items = {}
    /\ user_tag_groups = {}
    /\ user_tags = {}
    /\ next_tagged_item_id = 1
    /\ saves = 0
    /\ last = NoSave
    /\ saved_text = <<>>
    /\ loaded = NotLoaded
    /\ tag_data = <<>>
    /\ split_result = <<>>
    /\ split_done = FALSE
    /\ store_unique = FALSE
    /\ proc = NoProc

\* requests of one user, or of nobody, with every submitted text
DoSave ==
    \E model \in Models, instance \in 0..MaxRecords, form_user \in {Absent, "alice"},
       cleaned_data \in [FieldNames -> SaveTexts] :
        Save(model, instance, form_user, Absent, Absent, cleaned_data)

DoLoad == \E model \in Models, instance \in 0..MaxRecords : Load(model, instance)

Next == DoSave \/ DoLoad

Spec == Init /\ [][Next]_vars

----------------------------------------------------------------------------
(* Sequential requests with every way of supplying the owner of the tags *)

OwnerTexts == [FieldNames -> {<<"a">>}]

DoSaveOwner ==
    \E model \in Models, instance \in 0..MaxRecords,
       form_user \in UserAttrs, inst_user \in UserAttrs, get_user \in UserAttrs,
       cleaned_data \in OwnerTexts :
        Save(model, instance, form_user, inst_user, get_user, cleaned_data)

NextOwner == DoSaveOwner \/ DoLoad

OwnerSpec == Init /\ [][NextOwner]_vars

----------------------------------------------------------------------------
(* split_tags applied to every short string *)

InitSplit ==
    /\ Init!1 /\ Init!2 /\ Init!3 /\ Init!4 /\ Init!5
    /\ Init!6 /\ Init!7 /\ Init!8 /\ Init!9
    /\ tag_data \in Strings \cup {Example1, Example2, Example3}
    /\ split_result = <<>>
    /\ split_done = FALSE
    /\ store_unique = FALSE
    /\ proc = NoProc

ApplySplit ==
    /\ ~split_done
    /\ split_result' = split_tags(tag_data)
    /\ split_done' = TRUE
    /\ UNCHANGED <<records, tagged_items, user_tag_groups, user_tags, next_tagged_item_id,
                   saves, last, saved_text, loaded, tag_data, store_unique, proc>>

NextSplit == ApplySplit

SplitSpec == InitSplit /\ [][NextSplit]_vars

----------------------------------------------------------------------------
(* Concurrent requests: two save() calls, each for a new record, interleaved *)
(* at the statements that call the store                                     *)

ConcTexts == [FieldNames -> {<<>>, <<"a">>}]

InitConc ==
    /\ Init!1 /\ Init!2 /\ Init!3 /\ Init!4 /\ Init!5
    /\ Init!6 /\ Init!7 /\ Init!8 /\ Init!9
    /\ Init!10 /\ Init!11 /\ Init!12
    /\ store_unique \in BOOLEAN
    /\ proc = NoProc

ConcFrame ==
    UNCHANGED <<saves, last, saved_text, loaded, tag_data, split_result, split_done,
                store_unique>>

\* the next field of the loop of lines 67-69, or the return of line 70
next_field(pr) ==
    IF Len(pr.fields) <= 1
    THEN [pr EXCEPT !.pc = "done", !.fields = <<>>, !.tags = <<>>]
    ELSE [pr EXCEPT !.pc = "get_group", !.fields = Tail(@), !.tags = <<>>]

\* line 78 and the head of the loop of line 79
enter_tags(pr, group_id) ==
    LET tags == split_tags(pr.data[Head(pr.fields)[1]])
    IN  IF tags = <<>> THEN next_field([pr EXCEPT !.group = group_id])
        ELSE [pr EXCEPT !.pc = "get_tag", !.group = group_id, !.tags = tags]

\* the next tag of the loop of line 79
next_tag(pr) ==
    IF Len(pr.tags) <= 1 THEN next_field(pr)
    ELSE [pr EXCEPT !.pc = "get_tag", !.tags = Tail(@)]

raise(pr, exc) == [pr EXCEPT !.pc = "raised", !.exc = exc]

\* lines 46-59
CSuperSave(p, model, form_user, cleaned_data) ==
    /\ proc[p].pc \in {"idle", "done", "raised"}
    /\ saves < MaxSaves
    /\ count_records(model) < MaxRecords
    /\ LET key == <<model, count_records(model) + 1>>
           user == resolve_user(form_user, Absent, Absent)
           pr == [IdleProc EXCEPT !.key = key, !.user = user, !.data = cleaned_data]
       IN  /\ records' = save_records(records, key, Absent, user)
           /\ proc' = [proc EXCEPT ![p] =
                         IF user = Absent THEN raise(pr, "MissingTagOwner")
                         ELSE [pr EXCEPT !.pc = "delete"]]
    /\ saves' = saves + 1
    /\ UNCHANGED <<tagged_items, user_tag_groups, user_tags, next_tagged_item_id,
                   last, saved_text, loaded, tag_data, split_result, split_done,
                   store_unique>>

\* lines 61-64
CDelete(p) ==
    /\ proc[p].pc = "delete"
    /\ tagged_items' = delete_tagged_items(tagged_items, proc[p].key)
    /\ proc' = [proc EXCEPT ![p].pc = "create_item"]
    /\ UNCHANGED <<records, user_tag_groups, user_tags, next_tagged_item_id>>
    /\ ConcFrame

\* lines 65-66
CCreateItem(p) ==
    /\ proc[p].pc = "create_item"
    /\ tagged_items' = tagged_items \cup
         {[id |-> next_tagged_item_id, content_type |-> get_for_model(proc[p].key),
           object_id |-> proc[p].key[2], user_tags |-> {}]}
    /\ next_tagged_item_id' = next_tagged_item_id + 1
    /\ proc' = [proc EXCEPT ![p] =
                  [@ EXCEPT !.pc = "get_group", !.item = next_tagged_item_id,
                            !.fields = TAG_FIELDS]]
    /\ UNCHANGED <<records, user_tag_groups, user_tags>>
    /\ ConcFrame

\* line 74
CGetGroup(p) ==
    /\ proc[p].pc = "get_group"
    /\ \E got \in {objects_get({g \in user_tag_groups :
                                   g.name = Head(proc[p].fields)[1]})} :
         proc' = [proc EXCEPT ![p] =
                    IF got.exc = "DoesNotExist" THEN [@ EXCEPT !.pc = "create_group"]
                    ELSE IF got.exc # "" THEN raise(@, got.exc)
                    ELSE enter_tags(@, got.row.id)]
    /\ UNCHANGED <<records, tagged_items, user_tag_groups, user_tags, next_tagged_item_id>>
    /\ ConcFrame

\* a store that enforces the natural key refuses a second row with the key
integrity_error(unique, same_key) == unique /\ same_key # {}

\* lines 76-77
CCreateGroup(p) ==
    /\ proc[p].pc = "create_group"
    /\ LET name == Head(proc[p].fields)[1]
           row == [id |-> new_id(user_tag_groups), name |-> name, user |-> proc[p].user]
       IN  IF integrity_error(store_unique, {g \in user_tag_groups : g.name = name})
           THEN /\ proc' = [proc EXCEPT ![p] = raise(@, "IntegrityError")]
                /\ UNCHANGED user_tag_groups
           ELSE /\ user_tag_groups' = user_tag_groups \cup {row}
                /\ proc' = [proc EXCEPT ![p] = enter_tags(@, row.id)]
    /\ UNCHANGED <<records, tagged_items, user_tags, next_tagged_item_id>>
    /\ ConcFrame

\* line 81
CGetTag(p) ==
    /\ proc[p].pc = "get_tag"
    /\ \E got \in {objects_get({t \in user_tags :
                                   /\ t.user_tag_group = proc[p].group
                                   /\ t.text = Head(proc[p].tags)})} :
         proc' = [proc EXCEPT ![p] =
                    IF got.exc = "DoesNotExist" THEN [@ EXCEPT !.pc = "create_tag"]
                    ELSE IF got.exc # "" THEN raise(@, got.exc)
                    ELSE [@ EXCEPT !.pc = "add", !.tag = got.row.id]]
    /\ UNCHANGED <<records, tagged_items, user_tag_groups, user_tags, next_tagged_item_id>>
    /\ ConcFrame

\* lines 83-84
CCreateTag(p) ==
    /\ proc[p].pc = "create_tag"
    /\ LET text == Head(proc[p].tags)
           row == [id |-> new_id(user_tags), user_tag_group |-> proc[p].group, text |-> text]
       IN  IF integrity_error(store_unique,
                              {t \in user_tags : /\ t.user_tag_group = proc[p].group
                                                 /\ t.text = text})
           THEN /\ proc' = [proc EXCEPT ![p] = raise(@, "IntegrityError")]
                /\ UNCHANGED user_tags
           ELSE /\ user_tags' = user_tags \cup {row}
                /\ proc' = [proc EXCEPT ![p] = [@ EXCEPT !.pc = "add", !.tag = row.id]]
    /\ UNCHANGED <<records, tagged_items, user_tag_groups, next_tagged_item_id>>
    /\ ConcFrame

\* line 85
CAdd(p) ==
    /\ proc[p].pc = "add"
    /\ tagged_items' = add_user_tag(tagged_items, proc[p].item, proc[p].tag)
    /\ proc' = [proc EXCEPT ![p] = next_tag(@)]
    /\ UNCHANGED <<records, user_tag_groups, user_tags, next_tagged_item_id>>
    /\ ConcFrame

DoCSuperSave ==
    \E p \in Procs, model \in Models, form_user \in {Absent, "alice", "bob"},
       cleaned_data \in ConcTexts :
        CSuperSave(p, model, form_user, cleaned_data)

DoCDelete == \E p \in Procs : CDelete(p)

DoCCreateItem == \E p \in Procs : CCreateItem(p)

DoCGetGroup == \E p \in Procs : CGetGroup(p)

DoCCreateGroup == \E p \in Procs : CCreateGroup(p)

DoCGetTag == \E p \in Procs : CGetTag(p)

DoCCreateTag == \E p \in Procs : CCreateTag(p)

DoCAdd == \E p \in Procs : CAdd(p)

NextConc ==
    \/ DoCSuperSave
    \/ DoCDelete
    \/ DoCCreateItem
    \/ DoCGetGroup
    \/ DoCCreateGroup
    \/ DoCGetTag
    \/ DoCCreateTag
    \/ DoCAdd

ConcSpec == InitConc /\ [][NextConc]_vars

----------------------------------------------------------------------------
(* Properties of split_tags (SplitSpec) *)

ToSet(seq) == {seq[i] : i \in DOMAIN seq}

\* where the pieces of s start: after position 0 and after every comma
PieceStarts(s) == {0} \cup {i \in 1..Len(s) : s[i] = ","}

\* the end of the piece that starts after position b: the next comma, or the end of s
PieceEnd(s, b) ==
    LET commas == {i \in (b + 1)..Len(s) : s[i] = ","}
    IN  IF commas = {} THEN Len(s) + 1
        ELSE CHOOSE i \in commas : \A j \in commas : i <= j

\* the piece that starts after position b, without its surrounding whitespace
TrimmedPiece(s, b) ==
    LET inner == {i \in (b + 1)..(PieceEnd(s, b) - 1) : s[i] \notin Whitespace}
    IN  IF inner = {} THEN <<>>
        ELSE SubSeq(s, CHOOSE i \in inner : \A j \in inner : i <= j,
                       CHOOSE i \in inner : \A j \in inner : i >= j)

\* the starts of the pieces that are kept: not empty, and not seen before
KeptStarts(s) ==
    {b \in PieceStarts(s) :
        /\ TrimmedPiece(s, b) # <<>>
        /\ \A c \in PieceStarts(s) : c < b => TrimmedPiece(s, c) # TrimmedPiece(s, b)}

\* the reference result: the kept pieces in the order in which they start
ReferenceTags(s) ==
    [i \in 1..Cardinality(KeptStarts(s)) |->
        TrimmedPiece(s, CHOOSE b \in KeptStarts(s) :
                            Cardinality({c \in KeptStarts(s) : c < b}) = i - 1)]

\* C1: split_tags(s) is the list of the comma-separated pieces of s, trimmed,
\* without the empty ones and with only the first occurrence of each, in
\* first-seen order; so it has no empty, untrimmed or duplicate element, and
\* "a, b, a, ,c " gives ["a","b","c"], "" gives [] and "single" gives ["single"].
C1_SplitTagsIsReference ==
    split_done =>
        /\ split_result = ReferenceTags(tag_data)
        /\ \A i \in DOMAIN split_result :
              /\ split_result[i] # <<>>
              /\ Head(split_result[i]) \notin Whitespace
              /\ split_result[i][Len(split_result[i])] \notin Whitespace
              /\ "," \notin ToSet(split_result[i])
              /\ \A j \in DOMAIN split_result : split_result[j] = split_result[i] => j = i
        /\ tag_data = Example1 => split_result = << <<"a">>, <<"b">>, <<"c">> >>
        /\ tag_data = Example2 => split_result = <<>>
        /\ tag_data = Example3 => split_result = <<Example3>>

C1_Witness ==
    /\ split_done
    /\ tag_data = Example1
    /\ split_result = << <<"a">>, <<"b">>, <<"c">> >>

----------------------------------------------------------------------------
(* Properties of sequential saves and loads (Spec) *)

SaveStep == saves' = saves + 1

\* the tags a record must hold after cleaned_data was saved for it: per declared
\* field, the tags of the group named after the field whose text is in the field's list
ExpectedTags(cleaned_data) ==
    {t.id : t \in {u \in user_tags :
                     \E g \in user_tag_groups, f \in FieldNames :
                        /\ g.id = u.user_tag_group
                        /\ g.name = f
                        /\ u.text \in ToSet(split_tags(cleaned_data[f]))}}

\* every text of every field's list has a tag, in the field's group, among the ids
AllTextsIn(cleaned_data, ids) ==
    \A f \in FieldNames : \A text \in ToSet(split_tags(cleaned_data[f])) :
        \E t \in user_tags, g \in user_tag_groups :
            /\ t.id \in ids
            /\ t.text = text
            /\ t.user_tag_group = g.id
            /\ g.name = f

\* C2: at most one TaggedItem exists per (record type, record identity).
C2_OneTaggedItemPerRecord ==
    \A t1, t2 \in tagged_items :
        (t1.content_type = t2.content_type /\ t1.object_id = t2.object_id) => t1 = t2

\* a record that had tags was saved again, with another text
C2_Witness ==
    /\ last.outcome = "ok"
    /\ last.instance # NoInstance
    /\ last.old_tags # {}
    /\ last.old_tags # tags_of(tagged_items, last.key)
    /\ Cardinality(items_of(tagged_items, last.key)) = 1

\* C3: a record that was saved successfully has one TaggedItem, which holds
\* exactly the tags of split_tags of each field's submitted text in the group
\* named after the field: none is missing, and none of an earlier save remains.
C3_TaggedItemHoldsExactlySubmittedTags ==
    \A key \in DOMAIN saved_text :
        /\ Cardinality(items_of(tagged_items, key)) = 1
        /\ \A ti \in items_of(tagged_items, key) :
              /\ ti.user_tags = ExpectedTags(saved_text[key])
              /\ AllTextsIn(saved_text[key], ti.user_tags)

\* the latest save dropped a tag the record held and kept another
C3_Witness ==
    /\ last.outcome = "ok"
    /\ last.old_tags \ tags_of(tagged_items, last.key) # {}
    /\ last.old_tags \cap tags_of(tagged_items, last.key) # {}

\* C4: a successful save that follows a successful save of the same record
\* with the same text leaves one TaggedItem for the record, with the tag set it had,
\* and creates no Tag and no TagGroup.
C4_SaveIsIdempotent ==
    [][(/\ SaveStep
        /\ last.outcome = "ok"
        /\ last'.outcome = "ok"
        /\ last'.key = last.key
        /\ last'.cleaned_data = last.cleaned_data)
       => /\ Cardinality(items_of(tagged_items', last.key)) = 1
          /\ tags_of(tagged_items', last.key) = tags_of(tagged_items, last.key)
          /\ user_tags' = user_tags
          /\ user_tag_groups' = user_tag_groups]_vars

\* the same two-tag text was saved twice in succession for a record
C4_Witness ==
    /\ last.outcome = "ok"
    /\ last.repeat
    /\ Cardinality(last.old_tags) >= 2
    /\ tags_of(tagged_items, last.key) = last.old_tags

\* C5: the form constructed for a record that was saved successfully has, for
\* every tag field, an initial value whose comma-separated tags are as a set
\* those of split_tags of the text saved for that field (so no tag of another
\* field); for a record without TaggedItem no initial value is set.
C5_LoadReturnsSavedTags ==
    (loaded.active /\ loaded.exc = "") =>
        /\ loaded.key \in DOMAIN saved_text =>
              /\ loaded.set = FieldNames
              /\ \A f \in FieldNames :
                    ToSet(split_tags(loaded.value[f]))
                        = ToSet(split_tags(saved_text[loaded.key][f]))
        /\ items_of(tagged_items, loaded.key) = {} => loaded.set = {}
        /\ loaded.key \in DOMAIN saved_text \/ items_of(tagged_items, loaded.key) = {}

\* a record saved with two tags in one field and a different list in the other is loaded
C5_Witness ==
    /\ loaded.active
    /\ loaded.key \in DOMAIN saved_text
    /\ Len(split_tags(loaded.value["keywords"])) = 2
    /\ Len(split_tags(loaded.value["topics"])) = 1

\* C6: there is one TagGroup per name and one Tag per (TagGroup, text), so
\* two records saved with the same text under the same field hold the same Tag.
C6_FindOrCreateNeverDuplicates ==
    /\ \A g1, g2 \in user_tag_groups : (g1.name = g2.name \/ g1.id = g2.id) => g1 = g2
    /\ \A t1, t2 \in user_tags :
          ((t1.user_tag_group = t2.user_tag_group /\ t1.text = t2.text) \/ t1.id = t2.id)
              => t1 = t2
    /\ \A k1 \in DOMAIN saved_text : \A k2 \in DOMAIN saved_text \ {k1} : \A f \in FieldNames :
          \A text \in ToSet(split_tags(saved_text[k1][f]))
                          \cap ToSet(split_tags(saved_text[k2][f])) :
              \E t \in user_tags, g \in user_tag_groups :
                  /\ t.text = text
                  /\ t.user_tag_group = g.id
                  /\ g.name = f
                  /\ t.id \in tags_of(tagged_items, k1) \cap tags_of(tagged_items, k2)

\* two distinct records hold a common tag
C6_Witness ==
    \E k1, k2 \in DOMAIN saved_text :
        /\ k1 # k2
        /\ tags_of(tagged_items, k1) \cap tags_of(tagged_items, k2) # {}

\* C7: a save without form user, record user and get_user fails with the
\* missing-owner error and leaves the TaggedItems, their tags, the Tags and
\* the TagGroups as they were.
C7_FailedSaveWritesNoTags ==
    [][(/\ SaveStep
        /\ last'.form_user = Absent
        /\ last'.inst_user = Absent
        /\ last'.get_user = Absent)
       => /\ last'.outcome = "MissingTagOwner"
          /\ tagged_items' = tagged_items
          /\ user_tags' = user_tags
          /\ user_tag_groups' = user_tag_groups]_vars

\* a save of a record that holds tags has failed for want of an owner
C7_Witness ==
    /\ last.outcome = "MissingTagOwner"
    /\ last.old_tags # {}
    /\ tags_of(tagged_items, last.key) = last.old_tags

----------------------------------------------------------------------------
(* Properties of the owner of the tags (OwnerSpec) *)

\* C8, as claimed: a save that fails for want of an owner leaves the record
\* table unchanged.
C8_FailedSaveLeavesRecords ==
    [][(SaveStep /\ last'.outcome = "MissingTagOwner") => records' = records]_vars

\* C8, amended: a save that fails for want of an owner has already written
\* the record: the record is in the record table after the failed save, and
\* the other records are untouched.
C8_FailedSavePersistsRecord ==
    [][(SaveStep /\ last'.outcome = "MissingTagOwner")
       => /\ last'.key \in DOMAIN records'
          /\ records'[last'.key] = last'.inst_user
          /\ last'.instance = NoInstance => last'.key \notin DOMAIN records
          /\ \A k \in DOMAIN records : k # last'.key =>
                k \in DOMAIN records' /\ records'[k] = records[k]]_vars

\* a save of a new record has failed for want of an owner, and the record is stored
C8_Witness ==
    /\ last.outcome = "MissingTagOwner"
    /\ last.instance = NoInstance
    /\ last.key \in DOMAIN records

\* the user claimed for a save: the form's, else the record's, else get_user()'s
ClaimedOwner(call) ==
    CASE call.form_user # Absent -> call.form_user
      [] call.form_user = Absent /\ call.inst_user # Absent -> call.inst_user
      [] OTHER -> call.get_user

\* C9: a TagGroup created by a save is owned by the form's user if there is
\* one, else by the record's user if there is one, else by the user get_user()
\* returns; a TagGroup that exists keeps its owner.
C9_OwnerByPrecedence ==
    [][SaveStep
       => /\ user_tag_groups \subseteq user_tag_groups'
          /\ \A g \in user_tag_groups' \ user_tag_groups : g.user = ClaimedOwner(last')
          /\ \A g \in user_tag_groups, h \in user_tag_groups' :
                h.name = g.name => h.user = g.user]_vars

\* groups owned by one user exist after a save whose owner, taken from the
\* record because the form has no user, is another user than get_user() returns
C9_Witness ==
    /\ last.outcome = "ok"
    /\ last.form_user = Absent
    /\ last.inst_user \in Users
    /\ last.get_user \in Users \ {last.inst_user}
    /\ user_tag_groups # {}
    /\ \A g \in user_tag_groups : g.user = last.get_user

----------------------------------------------------------------------------
(* Properties of concurrent saves (ConcSpec) *)

NoSaveRunning == \A p \in Procs : proc[p].pc \in {"idle", "done", "raised"}

\* C10: when the concurrent saves have ended there is one TagGroup per name
\* and one Tag per (TagGroup, text).
C10_ConcurrentFindOrCreateNeverDuplicates ==
    NoSaveRunning =>
        /\ \A g1, g2 \in user_tag_groups : g1.name = g2.name => g1 = g2
        /\ \A t1, t2 \in user_tags :
              (t1.user_tag_group = t2.user_tag_group /\ t1.text = t2.text) => t1 = t2

====
